---- MODULE Spec2Model ----
(***************************************************************************)
(* Model of the POST /chat handler of src/index.js: the greeting and       *)
(* missing-key branches, the call of the language model, the stripping of  *)
(* Markdown fences, JSON.parse, the per-fragment loop (text-to-speech,     *)
(* ffmpeg, rhubarb, reading the files back) and the response.              *)
(*                                                                         *)
(* A text is a sequence of lexemes.  "FENCE" is three backticks, "LF" a    *)
(* newline, "DQ" a double quote, "json" and "a" are letters; the other     *)
(* lexemes are JSON punctuation and literals:                              *)
(*   "5", "null", "[", "]", ",", "{}", "}",                                *)
(*   "{text:"      stands for   {"text":                                   *)
(*   "{messages:"  stands for   {"messages":                               *)
(*   ",smile,Idle}" for ,"facialExpression":"smile","animation":"Idle"}    *)
(*   ",wink,Dance}" for ,"facialExpression":"wink","animation":"Dance"}    *)
(***************************************************************************)
EXTENDS Integers, Sequences, FiniteSets, TLC

\* ---------------------------------------------------------------- bounds
\* longest list of fragments the language model returns in the model
MaxFragments == 2

\* ------------------------------------------------------------ JS values
Undefined == <<"undefined">>
\* the content of a file or of a media property: which handler's pipeline
\* produced it (0: a bundled asset or a turn that is over), for which
\* fragment index and text, in which format and encoding
NoMedia == [by |-> 0, i |-> 0, text |-> <<>>, kind |-> "none", enc |-> "none"]

\* a JavaScript value as JSON.parse builds it; every kind has the same
\* fields so that values of different kinds can be compared.
\*   k      "num" | "null" | "str" | "arr" | "obj"
\*   s      the characters of a string
\*   items  the elements of an array
\*   msgs   <<v>> when an object has the property messages with value v
\*   text, facialExpression, animation, audio, lipsync: properties of an
\*   object, Undefined / "undefined" / NoMedia when the property is absent
MkValue(k, s, items, msgs, text, fe, an) ==
  [k |-> k, s |-> s, items |-> items, msgs |-> msgs, text |-> text,
   facialExpression |-> fe, animation |-> an,
   audio |-> NoMedia, lipsync |-> NoMedia]

Num == MkValue("num", <<>>, <<>>, <<>>, Undefined, "undefined", "undefined")
Null == MkValue("null", <<>>, <<>>, <<>>, Undefined, "undefined", "undefined")
Str(s) == MkValue("str", s, <<>>, <<>>, Undefined, "undefined", "undefined")
Arr(items) == MkValue("arr", <<>>, items, <<>>, Undefined, "undefined", "undefined")
EmptyObj == MkValue("obj", <<>>, <<>>, <<>>, Undefined, "undefined", "undefined")
Frag(text, fe, an) == MkValue("obj", <<>>, <<>>, <<>>, text, fe, an)
Wrapper(v) == MkValue("obj", <<>>, <<>>, <<v>>, Undefined, "undefined", "undefined")

\* ------------------------------------------------------- fence stripping
\* positions where the regular expression /```json\n?/ matches
JsonFenceAt(t) == {p \in 1..Len(t) : t[p] = "FENCE" /\ p < Len(t) /\ t[p + 1] = "json"}
\* positions where the regular expression /```\n?/ matches
FenceAt(t) == {p \in 1..Len(t) : t[p] = "FENCE"}

Least(S) == CHOOSE p \in S : \A q \in S : p <= q

\* t without the n lexemes that start at position p
Cut(t, p, n) == SubSeq(t, 1, p - 1) \o SubSeq(t, p + n, Len(t))

\* String.prototype.replace with a regular expression without the g flag:
\* only the leftmost match is replaced
ReplaceJsonFence(t) ==
  IF JsonFenceAt(t) = {} THEN t
  ELSE LET p == Least(JsonFenceAt(t))
       IN  IF p + 2 <= Len(t) /\ t[p + 2] = "LF" THEN Cut(t, p, 3) ELSE Cut(t, p, 2)

ReplaceFence(t) ==
  IF FenceAt(t) = {} THEN t
  ELSE LET p == Least(FenceAt(t))
       IN  IF p + 1 <= Len(t) /\ t[p + 1] = "LF" THEN Cut(t, p, 2) ELSE Cut(t, p, 1)

StripFences(t) == ReplaceFence(ReplaceJsonFence(t))

\* ------------------------------------------------------------ JSON.parse
ParseFail == [ok |-> FALSE, val |-> Null, next |-> 0]
ParseOk(v, n) == [ok |-> TRUE, val |-> v, next |-> n]

RECURSIVE SkipWs(_, _)
SkipWs(t, p) == IF p <= Len(t) /\ t[p] = "LF" THEN SkipWs(t, p + 1) ELSE p

\* a string literal that starts at position p: DQ characters DQ, where a
\* raw newline is not allowed among the characters
ParseString(t, p) ==
  IF p > Len(t) \/ t[p] # "DQ" THEN ParseFail
  ELSE LET closing == {q \in (p + 1)..Len(t) : t[q] = "DQ"}
       IN  IF closing = {} THEN ParseFail
           ELSE LET q == Least(closing)
                    chars == SubSeq(t, p + 1, q - 1)
                IN  IF \E j \in 1..Len(chars) : chars[j] = "LF" THEN ParseFail
                    ELSE ParseOk(Str(chars), q + 1)

FragmentTail(tok) ==
  CASE tok = "}" -> <<"undefined", "undefined">>
    [] tok = ",smile,Idle}" -> <<"smile", "Idle">>
    [] tok = ",wink,Dance}" -> <<"wink", "Dance">>
    [] OTHER -> <<>>

RECURSIVE ParseValue(_, _)
RECURSIVE ParseElements(_, _, _)

\* the elements of an array after "[" or ",": value, then "," or "]"
ParseElements(t, p, acc) ==
  LET e == ParseValue(t, p)
  IN  IF ~e.ok THEN ParseFail
      ELSE LET q == SkipWs(t, e.next)
           IN  IF q > Len(t) THEN ParseFail
               ELSE IF t[q] = "," THEN ParseElements(t, q + 1, Append(acc, e.val))
               ELSE IF t[q] = "]" THEN ParseOk(Arr(Append(acc, e.val)), q + 1)
               ELSE ParseFail

ParseValue(t, p0) ==
  LET p == SkipWs(t, p0)
  IN  IF p > Len(t) THEN ParseFail
      ELSE CASE t[p] = "5" -> ParseOk(Num, p + 1)
             [] t[p] = "null" -> ParseOk(Null, p + 1)
             [] t[p] = "DQ" -> ParseString(t, p)
             [] t[p] = "{}" -> ParseOk(EmptyObj, p + 1)
             [] t[p] = "{text:" ->
                  LET s == ParseString(t, SkipWs(t, p + 1))
                  IN  IF ~s.ok THEN ParseFail
                      ELSE LET q == SkipWs(t, s.next)
                           IN  IF q > Len(t) \/ FragmentTail(t[q]) = <<>> THEN ParseFail
                               ELSE ParseOk(Frag(s.val.s, FragmentTail(t[q])[1],
                                                 FragmentTail(t[q])[2]), q + 1)
             [] t[p] = "{messages:" ->
                  LET v == ParseValue(t, p + 1)
                  IN  IF ~v.ok THEN ParseFail
                      ELSE LET q == SkipWs(t, v.next)
                           IN  IF q > Len(t) \/ t[q] # "}" THEN ParseFail
                               ELSE ParseOk(Wrapper(v.val), q + 1)
             [] t[p] = "[" ->
                  LET q == SkipWs(t, p + 1)
                  IN  IF q <= Len(t) /\ t[q] = "]" THEN ParseOk(Arr(<<>>), q + 1)
                      ELSE ParseElements(t, p + 1, <<>>)
             [] OTHER -> ParseFail

\* JSON.parse(t): one value, with white space around it and nothing else
JsonParse(t) ==
  LET r == ParseValue(t, 1)
  IN  IF r.ok /\ SkipWs(t, r.next) > Len(t) THEN r ELSE ParseFail

\* JSON.stringify restricted to the values above (the language model's
\* client hands the text over as the model wrote it)
RECURSIVE Serialize(_)
RECURSIVE SerializeItems(_)
SerializeItems(items) ==
  IF items = <<>> THEN <<>>
  ELSE IF Len(items) = 1 THEN Serialize(items[1])
  ELSE Serialize(items[1]) \o <<",">> \o SerializeItems(Tail(items))

Serialize(v) ==
  CASE v.k = "num" -> <<"5">>
    [] v.k = "null" -> <<"null">>
    [] v.k = "str" -> <<"DQ">> \o v.s \o <<"DQ">>
    [] v.k = "arr" -> <<"[">> \o SerializeItems(v.items) \o <<"]">>
    [] v.k = "obj" /\ v.msgs # <<>> -> <<"{messages:">> \o Serialize(v.msgs[1]) \o <<"}">>
    [] v.k = "obj" /\ v.msgs = <<>> /\ v.text = Undefined -> <<"{}">>
    [] OTHER -> <<"{text:", "DQ">> \o v.text \o <<"DQ">> \o
                (IF v.facialExpression = "undefined" THEN <<"}">>
                 ELSE IF v.facialExpression = "smile" THEN <<",smile,Idle}">>
                 ELSE <<",wink,Dance}">>)

\* -------------------------------------------------- JavaScript semantics
\* ToBoolean of a value
Truthy(v) ==
  CASE v.k = "null" -> FALSE
    [] v.k = "str" -> v.s # <<>>
    [] OTHER -> TRUE

\* messages.length, -1 when the property is undefined
Length(v) ==
  CASE v.k = "arr" -> Len(v.items)
    [] v.k = "str" -> Len(v.s)
    [] OTHER -> -1

\* messages[i]
Elem(v, i) ==
  CASE v.k = "arr" -> v.items[i + 1]
    [] OTHER -> Str(<<v.s[i + 1]>>)

\* a handler that takes the parsed value as the list
UnwrapNever(v) == v

\* if (messages.messages) messages = messages.messages
Unwrap(v) ==
  IF v.k = "obj" /\ v.msgs # <<>> /\ Truthy(v.msgs[1]) THEN v.msgs[1] ELSE v

\* the facial expressions and the animations that the prompt enumerates
FacialExpressions == {"smile", "sad", "angry", "surprised", "funnyFace", "default"}
Animations == {"Talking_0", "Talking_1", "Talking_2", "Crying", "Laughing",
               "Rumba", "Idle", "Terrified", "Angry"}

\* an assignment of the audio that also replaces values outside the
\* enumerations by default and Idle
SetAudioValidating(v, i, a) ==
  [v EXCEPT !.items[i + 1].audio = a,
            !.items[i + 1].facialExpression =
               IF @ \in FacialExpressions THEN @ ELSE "default",
            !.items[i + 1].animation = IF @ \in Animations THEN @ ELSE "Idle"]

\* message.audio = ... and message.lipsync = ... on the object messages[i]
SetAudio(v, i, a) == [v EXCEPT !.items[i + 1].audio = a]
SetLipsync(v, i, l) == [v EXCEPT !.items[i + 1].lipsync = l]

\* ----------------------------------------------------------- media files
\* what textToSpeech writes to audios/message_i.mp3 for handler r and a text
Mp3(r, i, text) == [by |-> r, i |-> i, text |-> text, kind |-> "mp3", enc |-> "bytes"]
\* ffmpeg -y -i message_i.mp3 message_i.wav
Transcode(f) == [f EXCEPT !.kind = "wav"]
\* rhubarb -f json -o message_i.json message_i.wav -r phonetic
Visemes(f) == [f EXCEPT !.kind = "json", !.enc = "utf8"]
\* data.toString("base64")
AudioFileToBase64(f) == [f EXCEPT !.enc = "base64"]
\* JSON.parse(data) of a transcript
ReadJsonTranscript(f) == [f EXCEPT !.enc = "parsed"]
\* a bundled asset of the canned responses
Asset(name, kind) ==
  [by |-> 0, i |-> 0, text |-> <<name>>, kind |-> kind,
   enc |-> IF kind = "wav" THEN "bytes" ELSE "utf8"]

CannedFragment(text, name, fe, an) ==
  [Frag(<<text>>, fe, an) EXCEPT
     !.audio = AudioFileToBase64(Asset(name, "wav")),
     !.lipsync = ReadJsonTranscript(Asset(name, "json"))]

GreetingMessages ==
  Arr(<<CannedFragment("Hey dear... How was your day?", "intro_0", "smile", "Talking_1"),
        CannedFragment("I missed you so much... Please don't go for so long!",
                       "intro_1", "sad", "Crying")>>)

MisconfiguredMessages ==
  Arr(<<CannedFragment("Please my dear, don't forget to add your API keys!",
                       "api_0", "angry", "Angry"),
        CannedFragment("You don't want to ruin this with a crazy Gemini and ElevenLabs bill, right?",
                       "api_1", "smile", "Laughing")>>)

\* ------------------------------------------------------------------ state
VARIABLES
  geminiKey,   \* process.env.GEMINI_API_KEY: "undefined", "-" or "key"
  elevenKey,   \* process.env.ELEVEN_LABS_API_KEY: "undefined" or "key"
  overlap,     \* whether the clients send a request while another is handled
  outputs,     \* the texts that the language model may return
  files,       \* audios/message_i.mp3, .wav and .json for each index i
  req          \* the invocations of the POST /chat handler

vars == <<geminiKey, elevenKey, overlap, outputs, files, req>>

Handlers == {1, 2}
\* "Toi da 3 tin nhan": the system instruction asks the model for at most
\* three messages
MaxMessages == 3
\* the indices i of the files message_i: those of the longest list of the model
Indices == 0..(IF MaxFragments > MaxMessages THEN MaxFragments - 1 ELSE MaxMessages)

NoResponse == [status |-> 0, body |-> "none", messages |-> Null]
\* a response that leaves out the fragments without audio
SuccessWithAudioOnly(msgs) ==
  [status |-> 200, body |-> "messages",
   messages |-> IF msgs.k = "arr"
                THEN [msgs EXCEPT !.items = SelectSeq(msgs.items, LAMBDA f : f.audio # NoMedia)]
                ELSE msgs]

\* res.send({ messages })
Success(msgs) == [status |-> 200, body |-> "messages", messages |-> msgs]
\* res.status(500).send({ error: "Failed to process message", details })
Failure == [status |-> 500, body |-> "error", messages |-> Null]

Idle ==
  [pc |-> "idle", userMessage |-> "undefined", branch |-> "none",
   n |-> 0, llm |-> "none", raw |-> <<>>, messages |-> Null, i |-> 0,
   log |-> <<>>, res |-> NoResponse, sent |-> 0]

NoFiles == [mp3 |-> NoMedia, wav |-> NoMedia, json |-> NoMedia]

\* ------------------------------------------------- the language model
TextA == <<"a">>
TextFence == <<"FENCE">>
FragA == Frag(TextA, "smile", "Idle")
FragFence == Frag(TextFence, "wink", "Dance")

\* the lists of at most n fragments of the model: FragA, FragFence, FragA, ...
FragmentLists(n) ==
  {[j \in 1..len |-> IF j % 2 = 1 THEN FragA ELSE FragFence] : len \in 0..n}

\* the values the language model writes: lists of at most MaxFragments
\* fragments, bare or under the property messages, and values of other shapes
ModelValues ==
  {Arr(l) : l \in FragmentLists(MaxFragments)} \cup
  {Wrapper(Arr(l)) : l \in FragmentLists(MaxFragments)} \cup
  {Num, Null, Str(TextA), EmptyObj, Wrapper(Num), Wrapper(Null),
   Arr(<<Num>>), Arr(<<Null>>), Arr(<<EmptyObj, FragA>>)}

Fenced(t) == <<"FENCE", "json", "LF">> \o t \o <<"LF", "FENCE">>

\* texts that JSON.parse rejects
Malformed == {<<>>, <<"[", "5">>, <<"a">>}

ModelOutputs ==
  {Serialize(v) : v \in ModelValues} \cup
  {Fenced(Serialize(v)) : v \in ModelValues} \cup Malformed

\* a model that ignores the instruction: one message more than MaxMessages
LongList == [j \in 1..(MaxMessages + 1) |-> IF j % 2 = 1 THEN FragA ELSE FragFence]
\* a list of MaxMessages messages and a longer one
LongOutputs ==
  {Serialize(Arr(SubSeq(LongList, 1, MaxMessages))), Serialize(Arr(LongList))}

\* two lists with different texts at the same index
TextB == <<"b">>
FragB == Frag(TextB, "wink", "Dance")
ConcurrentOutputs == {Serialize(Arr(<<FragA>>)), Serialize(Arr(<<FragB>>))}

\* ------------------------------------------------------------ the handler
Init ==
  /\ geminiKey \in {"undefined", "-", "key"}
  /\ elevenKey \in {"undefined", "key"}
  /\ overlap = FALSE
  /\ outputs = ModelOutputs
  /\ files = [i \in Indices |-> NoFiles]
  /\ req = [r \in Handlers |-> Idle]

\* the model returns a list longer than it was asked for
InitLong ==
  /\ geminiKey \in {"undefined", "-", "key"}
  /\ elevenKey \in {"undefined", "key"}
  /\ overlap = FALSE
  /\ outputs = LongOutputs
  /\ files = [i \in Indices |-> NoFiles]
  /\ req = [r \in Handlers |-> Idle]

\* the clients send requests while another request is handled
InitConcurrent ==
  /\ geminiKey \in {"undefined", "-", "key"}
  /\ elevenKey \in {"undefined", "key"}
  /\ overlap = TRUE
  /\ outputs = ConcurrentOutputs
  /\ files = [i \in Indices |-> NoFiles]
  /\ req = [r \in Handlers |-> Idle]

\* !userMessage
NoMessage(m) == m \in {"undefined", ""}

\* !elevenLabsApiKey || process.env.GEMINI_API_KEY === "-"
KeysMissing == elevenKey = "undefined" \/ geminiKey = "-"

\* the branches with the check of the keys before the check of the message
BranchKeysFirst(m) ==
  IF KeysMissing THEN "MISCONFIGURED"
  ELSE IF NoMessage(m) THEN "GREETING"
  ELSE "NORMAL"

\* the branch of the handler that a request takes
Branch(m) ==
  IF NoMessage(m) THEN "GREETING"
  ELSE IF KeysMissing THEN "MISCONFIGURED"
  ELSE "NORMAL"

\* a call of an awaited operation, not yet settled
Call(op, i) == [op |-> op, i |-> i, result |-> "pending", exit |-> -1]
\* the log with its last call settled
Settle(log, ok) ==
  [log EXCEPT ![Len(log)].result = IF ok THEN "ok" ELSE "fail"]

\* a callback that resolves first and rejects afterwards
ExecCallbackResolveFirst(error) == IF error THEN <<"resolve", "reject">> ELSE <<"resolve">>

\* a callback that returns on an error without settling the promise
ExecCallbackDropsError(error) == IF error THEN <<>> ELSE <<"resolve">>

\* the callback of exec: if (error) reject(error); resolve(stdout);
ExecCallback(error) == IF error THEN <<"reject", "resolve">> ELSE <<"resolve">>

\* a promise is settled by the first call of resolve or reject; later calls
\* have no effect
PromiseState(calls) ==
  IF calls = <<>> THEN "pending"
  ELSE IF calls[1] = "resolve" THEN "fulfilled" ELSE "rejected"

\* execCommand(command) for a process that ends with the given exit status:
\* exec passes an error to the callback when the status is not zero
ExecCommand(exit) == PromiseState(ExecCallback(exit # 0))

\* the handler with the exit status of its pending command recorded
Exited(q, exit) == [q EXCEPT !.log[Len(q.log)].exit = exit]

\* res.send(...) and return, or the catch of the handler
Respond(q, response) ==
  [q EXCEPT !.pc = "done", !.res = response, !.sent = q.sent + 1]

\* the try block with the read of the transcript started but not awaited
NextStepNoAwait(op) ==
  CASE op = "tts" -> "ffmpeg"
    [] op = "ffmpeg" -> "rhubarb"
    [] op = "rhubarb" -> "readAudio"
    [] OTHER -> "next"

\* the statements of the try block of the loop, in their order
NextStep(op) ==
  CASE op = "tts" -> "ffmpeg"
    [] op = "ffmpeg" -> "rhubarb"
    [] op = "rhubarb" -> "readAudio"
    [] op = "readAudio" -> "readJson"
    [] OTHER -> "next"

\* a loop without its try block: an exception reaches the catch of the handler
OnFailureAbort(op) == "abort"

\* lipSyncMessage logging its error without rethrowing it, and the loop
\* going on with the next statement
OnFailureSwallow(op) == IF op \in {"tts", "ffmpeg", "rhubarb"} THEN NextStep(op) ELSE "next"

\* a failed step that is attempted again
OnFailureRetry(op) == op

\* where an exception of a step of the try block leads: lipSyncMessage
\* rethrows, and catch (audioError) goes on with the next fragment
OnFailure(op) == "next"

\* the loop from index i to its next await: messages[i].text throws outside
\* the try block when messages[i] is null; textInput.substring throws inside
\* it, and is caught, when the text is not a string
RECURSIVE NextStop(_, _)
NextStop(msgs, i) ==
  IF ~(i < Length(msgs)) THEN [kind |-> "send", i |-> i]
  ELSE LET message == Elem(msgs, i)
       IN  IF message.k = "null" THEN [kind |-> "throw", i |-> i]
           ELSE IF message.k = "obj" /\ message.text # Undefined
                THEN [kind |-> "tts", i |-> i]
           ELSE NextStop(msgs, i + 1)

\* the handler q running from the end of a step to its next await
Goto(q, target) ==
  IF target = "abort" THEN Respond(q, Failure)
  ELSE IF target # "next"
  THEN [q EXCEPT !.pc = target, !.log = Append(q.log, Call(target, q.i))]
  ELSE LET stop == NextStop(q.messages, IF q.pc = "llm" THEN 0 ELSE q.i + 1)
       IN  CASE stop.kind = "send" -> Respond([q EXCEPT !.i = stop.i], Success(q.messages))
             [] stop.kind = "throw" -> Respond([q EXCEPT !.i = stop.i], Failure)
             [] OTHER -> [q EXCEPT !.pc = "tts", !.i = stop.i,
                                   !.log = Append(q.log, Call("tts", stop.i))]

\* the end of an awaited step of the try block
Resume(q, ok) ==
  Goto([q EXCEPT !.log = Settle(q.log, ok)],
       IF ok THEN NextStep(q.pc) ELSE OnFailure(q.pc))

\* app.post("/chat"): a request arrives and runs to its first await; the
\* invocation takes the first free handler
Receive(r, m) ==
  /\ req[r].pc = "idle"
  /\ \A o \in Handlers : req[o].pc = "idle" => r <= o
  /\ overlap \/ \A o \in Handlers : req[o].pc = "idle"
  /\ LET q == [Idle EXCEPT !.userMessage = m, !.branch = Branch(m)]
     IN  req' = [req EXCEPT ![r] =
           IF q.branch = "NORMAL"
           THEN [q EXCEPT !.pc = "llm", !.llm = "pending", !.log = <<Call("llm", 0)>>]
           ELSE [q EXCEPT !.pc = "asset"]]
  /\ UNCHANGED <<geminiKey, elevenKey, overlap, outputs, files>>

\* a canned branch without its return: after res.send the handler goes on
\* to the call of the model
AssetReadNoReturn(r, ok) ==
  /\ req[r].pc = "asset"
  /\ LET q == req[r]
         canned == IF q.branch = "GREETING" THEN GreetingMessages
                   ELSE MisconfiguredMessages
     IN  req' = [req EXCEPT ![r] =
           IF ~ok THEN Respond(q, Failure)
           ELSE IF q.n < 3 THEN [q EXCEPT !.n = q.n + 1]
           ELSE [Respond([q EXCEPT !.n = 4], Success(canned)) EXCEPT
                   !.pc = "llm", !.llm = "pending", !.log = <<Call("llm", 0)>>]]
  /\ UNCHANGED <<geminiKey, elevenKey, overlap, outputs, files>>

\* a canned response that is sent without the media when a read fails
AssetReadDegrading(r, ok) ==
  /\ req[r].pc = "asset"
  /\ LET q == req[r]
         canned == IF q.branch = "GREETING" THEN GreetingMessages
                   ELSE MisconfiguredMessages
         bare == [canned EXCEPT !.items = [j \in 1..Len(canned.items) |->
                    [canned.items[j] EXCEPT !.audio = NoMedia, !.lipsync = NoMedia]]]
     IN  req' = [req EXCEPT ![r] =
           IF ~ok THEN Respond(q, Success(bare))
           ELSE IF q.n < 3 THEN [q EXCEPT !.n = q.n + 1]
           ELSE Respond([q EXCEPT !.n = 4], Success(canned))]
  /\ UNCHANGED <<geminiKey, elevenKey, overlap, outputs, files>>

\* one of the four reads of a canned response: audioFileToBase64 and
\* readJsonTranscript of the files _0 and _1; after the last, res.send
AssetRead(r, ok) ==
  /\ req[r].pc = "asset"
  /\ LET q == req[r]
     IN  req' = [req EXCEPT ![r] =
           IF ~ok THEN Respond(q, Failure)
           ELSE IF q.n < 3 THEN [q EXCEPT !.n = q.n + 1]
           ELSE Respond([q EXCEPT !.n = 4],
                        Success(IF q.branch = "GREETING" THEN GreetingMessages
                                ELSE MisconfiguredMessages))]
  /\ UNCHANGED <<geminiKey, elevenKey, overlap, outputs, files>>

\* a rejected call of the model taken for an empty list of fragments
LlmFailAsEmptyList(r) ==
  /\ req[r].pc = "llm"
  /\ req' = [req EXCEPT ![r] =
       Respond([req[r] EXCEPT !.llm = "error", !.log = Settle(req[r].log, FALSE),
                              !.messages = Arr(<<>>)], Success(Arr(<<>>)))]
  /\ UNCHANGED <<geminiKey, elevenKey, overlap, outputs, files>>

\* model.generateContent rejects
LlmFail(r) ==
  /\ req[r].pc = "llm"
  /\ req' = [req EXCEPT ![r] =
       Respond([req[r] EXCEPT !.llm = "error", !.log = Settle(req[r].log, FALSE)], Failure)]
  /\ UNCHANGED <<geminiKey, elevenKey, overlap, outputs, files>>

\* model.generateContent resolves with the text t: fences are stripped, the
\* text is parsed and unwrapped, and the loop runs to its first await
LlmReturn(r, t) ==
  /\ req[r].pc = "llm"
  /\ LET q == [req[r] EXCEPT !.llm = "ok", !.raw = t, !.log = Settle(req[r].log, TRUE)]
         parsed == JsonParse(StripFences(t))
     IN  req' = [req EXCEPT ![r] =
           IF ~parsed.ok \/ parsed.val.k = "null" THEN Respond(q, Failure)
           ELSE Goto([q EXCEPT !.messages = Unwrap(parsed.val)], "next")]
  /\ UNCHANGED <<geminiKey, elevenKey, overlap, outputs, files>>

\* file names that carry the request as well as the index
FileOfPerRequest(r, i) == IF r = 1 THEN i ELSE MaxMessages - i

\* audios/message_${i}.mp3, .wav and .json: the files of fragment i of the
\* request of handler r are named by the index alone
FileOf(r, i) == i

\* await execCommand(...): the handler resumes when the promise is settled,
\* and stays at the await while it is pending
AwaitExec(q, exit) ==
  LET state == ExecCommand(exit)
  IN  IF state = "pending" THEN [Exited(q, exit) EXCEPT !.pc = "await"]
      ELSE Resume(Exited(q, exit), state = "fulfilled")

\* voice.textToSpeech settles; when it resolves, message_i.mp3 is written
TtsDone(r, ok) ==
  /\ req[r].pc = "tts"
  /\ LET q == req[r]
     IN  /\ files' = IF ok THEN [files EXCEPT ![FileOf(r, q.i)].mp3 =
                                   Mp3(r, q.i, Elem(q.messages, q.i).text)]
                     ELSE files
         /\ req' = [req EXCEPT ![r] = Resume(q, ok)]
  /\ UNCHANGED <<geminiKey, elevenKey, overlap, outputs>>

\* execCommand(ffmpeg ...) settles; ffmpeg fails without its input file
FfmpegDone(r, exit) ==
  /\ req[r].pc = "ffmpeg"
  /\ LET q == req[r]
     IN  /\ exit = 0 => files[FileOf(r, q.i)].mp3 # NoMedia
         /\ files' = IF exit = 0
                     THEN [files EXCEPT ![FileOf(r, q.i)].wav = Transcode(files[FileOf(r, q.i)].mp3)]
                     ELSE files
         /\ req' = [req EXCEPT ![r] = AwaitExec(q, exit)]
  /\ UNCHANGED <<geminiKey, elevenKey, overlap, outputs>>

\* execCommand(rhubarb ...) settles; rhubarb fails without its input file
RhubarbDone(r, exit) ==
  /\ req[r].pc = "rhubarb"
  /\ LET q == req[r]
     IN  /\ exit = 0 => files[FileOf(r, q.i)].wav # NoMedia
         /\ files' = IF exit = 0
                     THEN [files EXCEPT ![FileOf(r, q.i)].json = Visemes(files[FileOf(r, q.i)].wav)]
                     ELSE files
         /\ req' = [req EXCEPT ![r] = AwaitExec(q, exit)]
  /\ UNCHANGED <<geminiKey, elevenKey, overlap, outputs>>

\* message.audio = await audioFileToBase64(fileName)
ReadAudioDone(r, ok) ==
  /\ req[r].pc = "readAudio"
  /\ LET q == req[r]
     IN  /\ ok => files[FileOf(r, q.i)].mp3 # NoMedia
         /\ req' = [req EXCEPT ![r] =
              Resume(IF ok THEN [q EXCEPT !.messages =
                                   SetAudio(q.messages, q.i, AudioFileToBase64(files[FileOf(r, q.i)].mp3))]
                     ELSE q, ok)]
  /\ UNCHANGED <<geminiKey, elevenKey, overlap, outputs, files>>

\* message.lipsync = await readJsonTranscript(`audios/message_${i}.json`)
ReadJsonDone(r, ok) ==
  /\ req[r].pc = "readJson"
  /\ LET q == req[r]
     IN  /\ ok => files[FileOf(r, q.i)].json # NoMedia
         /\ req' = [req EXCEPT ![r] =
              Resume(IF ok THEN [q EXCEPT !.messages =
                                   SetLipsync(q.messages, q.i, ReadJsonTranscript(files[FileOf(r, q.i)].json))]
                     ELSE q, ok)]
  /\ UNCHANGED <<geminiKey, elevenKey, overlap, outputs, files>>

\* a content of handler r once the turn of r is over
Retire(f, r) == IF f.by = r THEN [f EXCEPT !.by = 0] ELSE f

\* the response has been sent and the handler has returned: the turn is
\* over, its files stay on disk
Close(r) ==
  /\ req[r].pc = "done"
  /\ req' = [req EXCEPT ![r] = Idle]
  /\ files' = [i \in Indices |->
                [mp3 |-> Retire(files[i].mp3, r), wav |-> Retire(files[i].wav, r),
                 json |-> Retire(files[i].json, r)]]
  /\ UNCHANGED <<geminiKey, elevenKey, overlap, outputs>>

Next ==
  \/ \E r \in Handlers, m \in {"undefined", "", "hi"} : Receive(r, m)
  \/ \E r \in Handlers, ok \in BOOLEAN : AssetRead(r, ok)
  \/ \E r \in Handlers : LlmFail(r)
  \/ \E r \in Handlers, t \in outputs : LlmReturn(r, t)
  \/ \E r \in Handlers, ok \in BOOLEAN : TtsDone(r, ok)
  \/ \E r \in Handlers, exit \in {0, 1} : FfmpegDone(r, exit)
  \/ \E r \in Handlers, exit \in {0, 1} : RhubarbDone(r, exit)
  \/ \E r \in Handlers, ok \in BOOLEAN : ReadAudioDone(r, ok)
  \/ \E r \in Handlers, ok \in BOOLEAN : ReadJsonDone(r, ok)
  \/ \E r \in Handlers : Close(r)

Spec == Init /\ [][Next]_vars
SpecLong == InitLong /\ [][Next]_vars
SpecConcurrent == InitConcurrent /\ [][Next]_vars

\* an awaited call of handler r returns or fails
Returns(r) ==
  \/ \E ok \in BOOLEAN : AssetRead(r, ok)
  \/ LlmFail(r)
  \/ \E t \in outputs : LlmReturn(r, t)
  \/ \E ok \in BOOLEAN : TtsDone(r, ok)
  \/ \E exit \in {0, 1} : FfmpegDone(r, exit)
  \/ \E exit \in {0, 1} : RhubarbDone(r, exit)
  \/ \E ok \in BOOLEAN : ReadAudioDone(r, ok)
  \/ \E ok \in BOOLEAN : ReadJsonDone(r, ok)

\* every external call that a handler awaits returns or fails in the end
SpecReturning == Spec /\ \A r \in Handlers : WF_vars(Returns(r))

TypeOK ==
  /\ \A i \in Indices : files[i].mp3.by \in Handlers \cup {0}
  /\ \A r \in Handlers :
       /\ req[r].pc \in {"idle", "asset", "llm", "tts", "ffmpeg", "rhubarb",
                         "readAudio", "readJson", "done"}
       /\ req[r].sent \in 0..1

\* ----------------------------------------------------------- properties
Done(r) == req[r].pc = "done"
Parsed(r) == JsonParse(StripFences(req[r].raw))
\* the calls of the pipeline in the log of handler r
PipelineCalls(r) == {p \in 1..Len(req[r].log) : req[r].log[p].op # "llm"}
\* a step of the pipeline of fragment i of handler r has failed
StepFailed(r, i) ==
  \E p \in PipelineCalls(r) : req[r].log[p].i = i /\ req[r].log[p].result = "fail"
HasAudio(f) == f.audio # NoMedia
HasLipsync(f) == f.lipsync # NoMedia
\* an array of objects
FragmentArray(v) == v.k = "arr" /\ \A j \in 1..Len(v.items) : v.items[j].k = "obj"
\* a value with its audio and lipsync removed from every element
WithoutMedia(v) ==
  [v EXCEPT !.items = [j \in 1..Len(v.items) |->
     [v.items[j] EXCEPT !.audio = NoMedia, !.lipsync = NoMedia]]]

\* C1: in every response of the NORMAL branch each fragment has both audio
\* and lipsync or neither, and a fragment one of whose pipeline steps failed
\* has neither.
C1_AudioIffLipsync ==
  \A r \in Handlers :
    (req[r].branch = "NORMAL" /\ req[r].res.body = "messages"
       /\ req[r].res.messages.k = "arr") =>
      \A j \in 1..Len(req[r].res.messages.items) :
        LET f == req[r].res.messages.items[j]
        IN  /\ HasAudio(f) <=> HasLipsync(f)
            /\ StepFailed(r, j - 1) => ~HasAudio(f) /\ ~HasLipsync(f)

\* C2: once the output of the language model is parsed into a list of
\* fragment objects, no failure of a pipeline step aborts the turn: no error
\* response is sent, the response carries every fragment of the list, and
\* text-to-speech has been called for every fragment that has a text, also
\* after a failed one.
C2_FailuresDegradeOnly ==
  \A r \in Handlers :
    (req[r].llm = "ok" /\ Parsed(r).ok /\ Parsed(r).val.k # "null"
       /\ FragmentArray(req[r].messages)) =>
      /\ req[r].res.status # 500
      /\ Done(r) =>
           /\ req[r].res.status = 200 /\ req[r].res.body = "messages"
           /\ Len(req[r].res.messages.items) = Len(req[r].messages.items)
           /\ \A j \in 1..Len(req[r].messages.items) :
                /\ req[r].res.messages.items[j].text = req[r].messages.items[j].text
                /\ req[r].messages.items[j].text # Undefined =>
                     \E p \in PipelineCalls(r) :
                       req[r].log[p].op = "tts" /\ req[r].log[p].i = j - 1

C2_Witness ==
  \E r \in Handlers :
    /\ Done(r) /\ req[r].res.status = 200
    /\ Len(req[r].res.messages.items) = 2
    /\ StepFailed(r, 0)
    /\ \E p \in PipelineCalls(r) : req[r].log[p].op = "tts" /\ req[r].log[p].i = 1

\* a key of the language model or of the speech synthesis is absent or is
\* the placeholder "-"
CredentialMissing == geminiKey \in {"undefined", "-"} \/ elevenKey = "undefined"

\* C3: a request with a message, when a key of the language model or of the
\* speech synthesis is absent or a placeholder, is answered with the fixed
\* angry/smile pair of the api_0/api_1 assets, and neither the language model
\* nor the pipeline is called.
C3_MissingKeyGivesFixedPair ==
  \A r \in Handlers :
    (req[r].pc # "idle" /\ ~NoMessage(req[r].userMessage) /\ CredentialMissing) =>
      /\ req[r].log = <<>>
      /\ req[r].res.body = "messages" => req[r].res.messages = MisconfiguredMessages
      /\ (Done(r) /\ req[r].n = 4) => req[r].res = Success(MisconfiguredMessages)

\* C4 as stated: a request without a message is always answered with the two
\* fragments of the intro_0/intro_1 assets, whatever the keys, and neither
\* the language model nor the pipeline is called.
C4_GreetingAlways ==
  \A r \in Handlers :
    (req[r].pc # "idle" /\ NoMessage(req[r].userMessage)) =>
      /\ req[r].log = <<>>
      /\ Done(r) =>
           /\ req[r].res.status = 200
           /\ req[r].res.messages.k = "arr"
           /\ Len(req[r].res.messages.items) = 2
           /\ \A j \in 1..2 :
                /\ req[r].res.messages.items[j].facialExpression \in {"smile", "sad"}
                /\ req[r].res.messages.items[j].animation \in {"Talking_1", "Crying"}

\* C4 amended: a request without a message takes the greeting branch whatever
\* the keys, calls neither the language model nor the pipeline, and is
\* answered with the two fragments (smile/Talking_1, sad/Crying) of the
\* intro_0/intro_1 assets when the four asset reads succeed, and with the
\* error response when one of them fails.
C4_GreetingUnlessAssetFails ==
  \A r \in Handlers :
    (req[r].pc # "idle" /\ NoMessage(req[r].userMessage)) =>
      /\ req[r].branch = "GREETING"
      /\ req[r].log = <<>>
      /\ req[r].pc \in {"asset", "done"}
      /\ Done(r) =>
           \/ /\ req[r].n = 4
              /\ req[r].res = Success(GreetingMessages)
              /\ Len(req[r].res.messages.items) = 2
              /\ \A j \in 1..2 :
                   /\ req[r].res.messages.items[j].facialExpression \in {"smile", "sad"}
                   /\ req[r].res.messages.items[j].animation \in {"Talking_1", "Crying"}
           \/ /\ req[r].n < 4
              /\ req[r].res = Failure

C4_Witness ==
  \E r \in Handlers :
    /\ Done(r) /\ NoMessage(req[r].userMessage) /\ KeysMissing
    /\ req[r].res = Success(GreetingMessages)

\* C5: in the NORMAL branch, when the call of the language model fails or
\* its output is not valid JSON after the fences are stripped, the request
\* ends with the status-500 error response, never with a messages response,
\* and no step of the pipeline is called.
C5_ModelFailureIs500 ==
  \A r \in Handlers :
    (req[r].branch = "NORMAL" /\
       (req[r].llm = "error" \/ (req[r].llm = "ok" /\ ~Parsed(r).ok))) =>
      /\ Done(r)
      /\ req[r].res.status = 500 /\ req[r].res.body = "error"
      /\ req[r].sent = 1
      /\ PipelineCalls(r) = {}

C5_Witness ==
  \E r \in Handlers :
    /\ req[r].llm = "ok" /\ ~Parsed(r).ok /\ req[r].raw # <<>>
    /\ req[r].res.status = 500

\* the shape that the handler expects of the parsed output: an array of
\* fragment objects, or an object whose messages is such an array
ExpectedShape(v) ==
  \/ FragmentArray(v)
  \/ v.k = "obj" /\ v.msgs # <<>> /\ FragmentArray(v.msgs[1])

\* C6: in the NORMAL branch an output that is valid JSON of another shape
\* than the expected one ends the request with the status-500 error response.
C6_WrongShapeIs500 ==
  \A r \in Handlers :
    (Done(r) /\ req[r].llm = "ok" /\ Parsed(r).ok /\ ~ExpectedShape(Parsed(r).val)) =>
      req[r].res.status = 500

\* fragment i of handler r is complete (audio and lipsync attached) or has
\* failed and is degraded
Settled(r, i) ==
  \/ HasAudio(Elem(req[r].messages, i)) /\ HasLipsync(Elem(req[r].messages, i))
  \/ StepFailed(r, i)

\* C7: within one request the fragments are processed one at a time in the
\* order of their indices: only the last call is pending, the indices of the
\* calls never decrease, and when a call for a later fragment has started,
\* every earlier fragment that was started is complete or degraded.
C7_FragmentsSequential ==
  \A r \in Handlers :
    LET log == req[r].log
    IN  /\ \A p \in 1..(Len(log) - 1) : log[p].result # "pending"
        /\ \A p \in PipelineCalls(r), q \in PipelineCalls(r) :
             p < q =>
               /\ log[p].i <= log[q].i
               /\ log[p].i < log[q].i => Settled(r, log[p].i)

C7_Witness ==
  \E r \in Handlers :
    \E p \in PipelineCalls(r), q \in PipelineCalls(r) :
      /\ req[r].log[p].i = 0 /\ req[r].log[q].i = 1
      /\ req[r].log[q].result = "pending"
      /\ HasAudio(Elem(req[r].messages, 0)) /\ HasLipsync(Elem(req[r].messages, 0))

\* the step that comes before a step of the pipeline
Before(op) ==
  CASE op = "ffmpeg" -> "tts"
    [] op = "rhubarb" -> "ffmpeg"
    [] op = "readAudio" -> "rhubarb"
    [] op = "readJson" -> "readAudio"
    [] OTHER -> "none"

\* C8: within one fragment the steps run in the order synthesize, transcode,
\* extract visemes, read audio, read transcript; each starts right after the
\* one before it has succeeded for the same fragment, and after a failed
\* step no further step is called for that fragment.
C8_StepsInOrder ==
  \A r \in Handlers :
    LET log == req[r].log
    IN  \A q \in PipelineCalls(r) :
          /\ log[q].op # "tts" =>
               /\ q > 1
               /\ log[q - 1].op = Before(log[q].op)
               /\ log[q - 1].i = log[q].i
               /\ log[q - 1].result = "ok"
          /\ log[q].result = "fail" =>
               \A p \in PipelineCalls(r) : p > q => log[p].i # log[q].i
          /\ log[q].op = "tts" =>
               \A p \in PipelineCalls(r) : p < q => log[p].i # log[q].i

C8_Witness ==
  \E r \in Handlers :
    \E p \in PipelineCalls(r) :
      /\ req[r].log[p].op = "tts" /\ req[r].log[p].result = "fail"
      /\ req[r].log[p].i = 0
      /\ \E q \in PipelineCalls(r) : req[r].log[q].op = "readJson" /\ req[r].log[q].i = 1

\* the list of fragments of the parsed output of handler r
ParsedList(r) == Unwrap(Parsed(r).val)

\* C9: the messages of a response are the fragments of the selected branch,
\* in the same number and the same order: the fixed table of the GREETING
\* and MISCONFIGURED branches, the parsed list of the NORMAL branch with
\* nothing but audio and lipsync added.
C9_OrderAndLengthKept ==
  \A r \in Handlers :
    (Done(r) /\ req[r].res.body = "messages") =>
      /\ req[r].branch = "GREETING" => req[r].res.messages = GreetingMessages
      /\ req[r].branch = "MISCONFIGURED" => req[r].res.messages = MisconfiguredMessages
      /\ req[r].branch = "NORMAL" =>
           /\ req[r].res.messages.k = ParsedList(r).k
           /\ Len(req[r].res.messages.items) = Len(ParsedList(r).items)
           /\ WithoutMedia(req[r].res.messages) = ParsedList(r)

C9_Witness ==
  \E r \in Handlers :
    /\ Done(r) /\ req[r].branch = "NORMAL" /\ req[r].res.body = "messages"
    /\ Len(req[r].res.messages.items) = 2
    /\ req[r].res.messages.items[1].text # req[r].res.messages.items[2].text
    /\ ~HasAudio(req[r].res.messages.items[1])
    /\ HasAudio(req[r].res.messages.items[2])

\* the text inside the fences when t is a text of the model wrapped in fences
Unfenced(t) ==
  IF \E v \in ModelValues : t = Fenced(Serialize(v))
  THEN CHOOSE u \in {Serialize(v) : v \in ModelValues} : t = Fenced(u)
  ELSE t

\* what the handler makes of a text: the error response or the parsed list
Outcome(parsed) ==
  IF ~parsed.ok \/ parsed.val.k = "null" THEN [error |-> TRUE, list |-> Null]
  ELSE [error |-> FALSE, list |-> Unwrap(parsed.val)]

\* C10: stripping the fences is transparent: what the handler makes of a
\* text wrapped in fences is what JSON.parse makes of the text inside them,
\* and what it makes of a text without fences is what JSON.parse makes of
\* that text.
C10_FenceStrippingTransparent ==
  \A r \in Handlers :
    req[r].llm = "ok" =>
      LET expected == Outcome(JsonParse(Unfenced(req[r].raw)))
      IN  IF expected.error THEN req[r].res.status = 500 /\ req[r].messages = Null
          ELSE WithoutMedia(req[r].messages) = expected.list

\* the lists A of fragment objects of the model
FragmentArrays == {Arr(l) : l \in FragmentLists(MaxFragments)}
\* handler r has received the text of the value v
Received(r, v) == req[r].llm = "ok" /\ req[r].raw = Serialize(v)
\* the calls of text-to-speech in the log of handler r, as fragment indices
TtsIndices(r) ==
  [p \in 1..Cardinality({c \in PipelineCalls(r) : req[r].log[c].op = "tts"}) |->
     LET calls == {c \in PipelineCalls(r) : req[r].log[c].op = "tts"}
         c == CHOOSE c \in calls : Cardinality({d \in calls : d <= c}) = p
     IN  req[r].log[c].i]

\* C11: for every array A of fragment objects, the output {messages: A}
\* gives the list that JSON.parse gives for the bare output A (after the same
\* stripping), the bare output A gives that list too, and in both cases the
\* pipeline runs over the indices of A in order and the response carries A.
C11_BareAndWrappedAgree ==
  \A r \in Handlers : \A a \in FragmentArrays :
    (Received(r, a) \/ Received(r, Wrapper(a))) =>
      LET list == JsonParse(StripFences(Serialize(a))).val
      IN  /\ WithoutMedia(req[r].messages) = list
          /\ req[r].res.status # 500
          /\ Done(r) =>
               /\ req[r].res.body = "messages"
               /\ WithoutMedia(req[r].res.messages) = list
               /\ TtsIndices(r) = [j \in 1..Len(list.items) |-> j - 1]

C11_Witness ==
  \E r \in Handlers :
    /\ Done(r) /\ Received(r, Wrapper(Arr(<<FragA, FragFence>>)))
    /\ req[r].res.status = 200
    /\ Len(req[r].res.messages.items) = 2
    /\ HasAudio(req[r].res.messages.items[2])

\* the calls of execCommand in the log of handler r
ExecCalls(r) == {p \in PipelineCalls(r) : req[r].log[p].op \in {"ffmpeg", "rhubarb"}}

\* C12: a call of execCommand is settled once, when its process has ended:
\* it resolves exactly when the exit status is zero and rejects otherwise,
\* and after a failed command the caller does not go on to the next step of
\* that fragment.
C12_ExecResolvesIffExitZero ==
  \A r \in Handlers : \A p \in ExecCalls(r) :
    LET c == req[r].log[p]
    IN  /\ c.result = "pending" <=> c.exit = -1
        /\ c.result = "ok" <=> c.exit = 0
        /\ c.result = "fail" <=> c.exit > 0
        /\ c.result = "pending" => p = Len(req[r].log) /\ req[r].pc = c.op
        /\ (c.exit > 0 /\ p < Len(req[r].log)) => req[r].log[p + 1].i # c.i

C12_Witness ==
  \E r \in Handlers : \E p \in ExecCalls(r), q \in ExecCalls(r) :
    /\ req[r].log[p].op = "ffmpeg" /\ req[r].log[p].exit = 0
    /\ req[r].log[q].op = "rhubarb" /\ req[r].log[q].exit = 1
    /\ req[r].log[q].result = "fail"
    /\ Done(r)

\* C13: concurrent requests share the files message_i of one index range:
\* the file of index k holds what the last writer, whichever request it
\* was, made for its fragment k, and a fragment whose audio or lipsync was
\* made for another text has got it from a file that another request wrote
\* to the name of its own index. The interleaving of the race is C13_Witness.
C13_FilesSharedByIndex ==
  /\ \A k \in Indices : \A f \in ({files[k].mp3, files[k].wav, files[k].json} \ {NoMedia}) :
       f.i = k
  /\ \A r \in Handlers :
       (req[r].branch = "NORMAL" /\ req[r].messages.k = "arr") =>
         \A j \in 1..Len(req[r].messages.items) :
           LET f == req[r].messages.items[j]
           IN  f.k = "obj" =>
                 /\ (HasAudio(f) /\ f.audio.text # f.text) =>
                      f.audio.i = j - 1 /\ f.audio.by # r
                 /\ (HasLipsync(f) /\ f.lipsync.text # f.text) =>
                      f.lipsync.i = j - 1 /\ f.lipsync.by # r

\* handler r has written message_0.mp3 for its own text, the other request
\* has overwritten it before r read it, and r has answered with the audio of
\* the other request's text
C13_Witness ==
  \E r \in Handlers : \E o \in Handlers \ {r} :
    /\ Done(r) /\ req[r].res.status = 200
    /\ Len(req[r].log) >= 2
    /\ req[r].log[2] = [op |-> "tts", i |-> 0, result |-> "ok", exit |-> -1]
    /\ req[o].llm = "ok" /\ req[o].raw # req[r].raw
    /\ LET f == req[r].res.messages.items[1]
       IN  /\ HasAudio(f) /\ HasLipsync(f)
           /\ f.audio.by = o
           /\ f.text = TextA
           /\ f.audio.text = TextB /\ req[o].messages.items[1].text = TextB

\* the request of handler r is in one of the two branches with a canned
\* response
Canned(r) == req[r].branch \in {"GREETING", "MISCONFIGURED"}

\* C14: in the GREETING and MISCONFIGURED branches a failed read of one of
\* the four assets ends the request with the status-500 error response as
\* its only response; a messages response is sent only after the four reads
\* have succeeded, and then it is the complete canned pair.
C14_AssetFailureIs500 ==
  \A r \in Handlers :
    Canned(r) =>
      /\ req[r].pc = "asset" => req[r].res = NoResponse /\ req[r].sent = 0
      /\ (Done(r) /\ req[r].n < 4) => req[r].res = Failure /\ req[r].sent = 1
      /\ req[r].res.body = "messages" =>
           /\ req[r].n = 4
           /\ req[r].res.messages \in {GreetingMessages, MisconfiguredMessages}

C14_Witness ==
  \E r \in Handlers :
    /\ req[r].branch = "MISCONFIGURED" /\ Done(r)
    /\ req[r].n = 2
    /\ req[r].res.status = 500 /\ req[r].res.body = "error"

\* the calls of the operation op for index i in the log of handler r
CallsOf(r, op, i) ==
  {p \in 1..Len(req[r].log) : req[r].log[p].op = op /\ req[r].log[p].i = i}

\* C15: no call is made twice. A NORMAL request calls the language model
\* exactly once; for every index each of speech synthesis, transcode, viseme
\* extraction and the two reads is called at most once, a failed call is
\* never followed by another call for the same fragment, and in a completed
\* turn speech synthesis has been called exactly once for every fragment that
\* has a text. The GREETING and MISCONFIGURED branches make none of the calls.
C15_NoRetries ==
  \A r \in Handlers :
    /\ req[r].branch \in {"GREETING", "MISCONFIGURED"} => req[r].log = <<>>
    /\ req[r].branch = "NORMAL" =>
         /\ Cardinality({p \in 1..Len(req[r].log) : req[r].log[p].op = "llm"}) = 1
         /\ req[r].log[1].op = "llm"
         /\ \A i \in Indices :
              \A op \in {"tts", "ffmpeg", "rhubarb", "readAudio", "readJson"} :
                Cardinality(CallsOf(r, op, i)) <= 1
         /\ \A p \in PipelineCalls(r) :
              req[r].log[p].result = "fail" =>
                \A n \in (p + 1)..Len(req[r].log) : req[r].log[n].i > req[r].log[p].i
         /\ (Done(r) /\ req[r].res.status = 200 /\ FragmentArray(req[r].messages)) =>
              \A j \in 1..Len(req[r].messages.items) :
                Cardinality(CallsOf(r, "tts", j - 1)) =
                  IF req[r].messages.items[j].text # Undefined THEN 1 ELSE 0

\* a completed turn of two fragments in which a step of each has failed
C15_Witness ==
  \E r \in Handlers :
    /\ Done(r) /\ req[r].res.status = 200
    /\ Len(req[r].log) = 5
    /\ req[r].log[2] = [op |-> "tts", i |-> 0, result |-> "fail", exit |-> -1]
    /\ req[r].log[3].op = "tts" /\ req[r].log[3].i = 1
    /\ req[r].log[5] = [op |-> "rhubarb", i |-> 1, result |-> "fail", exit |-> 1]

\* the text, facialExpression and animation of a fragment
Passed(f) == <<f.text, f.facialExpression, f.animation>>

\* C16: the pipeline and the response only add audio and lipsync. At every
\* point of a NORMAL request, and in its response, the text, facialExpression
\* and animation of each fragment are those of the parsed output, for
\* complete and for degraded fragments alike, also when a value is outside
\* the enumerations of the prompt.
C16_OnlyMediaAdded ==
  \A r \in Handlers :
    (req[r].branch = "NORMAL" /\ req[r].llm = "ok" /\ FragmentArray(req[r].messages)) =>
      /\ Len(req[r].messages.items) = Len(ParsedList(r).items)
      /\ \A j \in 1..Len(req[r].messages.items) :
           /\ Passed(req[r].messages.items[j]) = Passed(ParsedList(r).items[j])
           /\ ~HasAudio(ParsedList(r).items[j]) /\ ~HasLipsync(ParsedList(r).items[j])
      /\ req[r].res.body = "messages" =>
           /\ Len(req[r].res.messages.items) = Len(ParsedList(r).items)
           /\ \A j \in 1..Len(ParsedList(r).items) :
                Passed(req[r].res.messages.items[j]) = Passed(ParsedList(r).items[j])

\* a response with a complete fragment and a degraded one whose values are
\* outside the enumerations
C16_Witness ==
  \E r \in Handlers :
    /\ Done(r) /\ req[r].branch = "NORMAL" /\ req[r].res.body = "messages"
    /\ req[r].res.messages.k = "arr"
    /\ \E j, k \in 1..Len(req[r].res.messages.items) :
         LET f == req[r].res.messages.items[j]
             g == req[r].res.messages.items[k]
         IN  /\ f.k = "obj" /\ g.k = "obj"
             /\ HasAudio(f) /\ HasLipsync(f)
             /\ g.facialExpression \notin FacialExpressions
             /\ g.animation \notin Animations
             /\ ~HasAudio(g) /\ StepFailed(r, k - 1)

\* the indices for which handler r has run the pipeline
Processed(r) == {req[r].log[p].i : p \in PipelineCalls(r)}

\* C17: in a NORMAL request the pipeline is run on at most MaxMessages
\* fragments and the response contains at most MaxMessages fragments,
\* whatever the length of the list that the language model returns.
C17_FanOutAtMostThree ==
  \A r \in Handlers :
    req[r].branch = "NORMAL" =>
      /\ Cardinality(Processed(r)) <= MaxMessages
      /\ (req[r].res.body = "messages" /\ req[r].res.messages.k = "arr") =>
           Len(req[r].res.messages.items) <= MaxMessages

\* handler r is at an await: in a canned branch at the read of an asset,
\* in the NORMAL branch at the last call of its log
Awaiting(r) == req[r].pc \notin {"idle", "done"}

\* C18: when every awaited call returns or fails in the end, every request
\* is answered in the end; and while a request is at an await, its call not
\* yet returned, no response has been sent for it.
C18_RespondsWhenCallsReturn ==
  /\ [](\A r \in Handlers :
          Awaiting(r) =>
            /\ req[r].sent = 0 /\ req[r].res = NoResponse
            /\ req[r].branch = "NORMAL" =>
                 /\ req[r].log[Len(req[r].log)].result = "pending"
                 /\ req[r].log[Len(req[r].log)].i = req[r].i)
  /\ \A r \in Handlers : Awaiting(r) ~> (Done(r) /\ req[r].sent = 1)

\* a request answered after a command of its pipeline has failed and every
\* step of its second fragment has been awaited
C18_Witness ==
  \E r \in Handlers :
    /\ Done(r) /\ req[r].sent = 1 /\ req[r].res.status = 200
    /\ Len(req[r].log) = 8
    /\ req[r].log[3] = [op |-> "ffmpeg", i |-> 0, result |-> "fail", exit |-> 1]
    /\ req[r].log[8] = [op |-> "readJson", i |-> 1, result |-> "ok", exit |-> -1]

\* C19: when requests do not overlap, the audio and the lipsync of fragment
\* i of a request are what that request's own run for fragment i has made of
\* the text of the fragment, and the request writes the files of index i
\* only for its fragment i; the files that earlier turns have left on disk
\* are attached to no fragment.
C19_MediaFromOwnRun ==
  /\ \A k \in Indices : \A f \in ({files[k].mp3, files[k].wav, files[k].json} \ {NoMedia}) :
       f.i = k
  /\ \A r \in Handlers :
       (req[r].branch = "NORMAL" /\ FragmentArray(req[r].messages)) =>
         \A j \in 1..Len(req[r].messages.items) :
           LET f == req[r].messages.items[j]
               own == Mp3(r, j - 1, f.text)
           IN  /\ HasAudio(f) => f.audio = AudioFileToBase64(own)
               /\ HasLipsync(f) =>
                    f.lipsync = ReadJsonTranscript(Visemes(Transcode(own)))
               /\ (HasAudio(f) \/ HasLipsync(f)) =>
                    \E p \in CallsOf(r, "tts", j - 1) : req[r].log[p].result = "ok"

\* the files of an earlier turn are on disk under index 1, the second
\* fragment of this turn is degraded and carries none of them, and the first
\* fragment carries the media of this turn
C19_Witness ==
  \E r \in Handlers :
    /\ Done(r) /\ req[r].res.status = 200 /\ req[r].res.messages.k = "arr"
    /\ Len(req[r].res.messages.items) = 2
    /\ files[1].mp3 # NoMedia /\ files[1].mp3.by = 0
    /\ files[1].json # NoMedia /\ files[1].json.by = 0
    /\ files[0].mp3.by = r /\ files[0].json.by = r
    /\ HasAudio(req[r].res.messages.items[1])
    /\ HasLipsync(req[r].res.messages.items[1])
    /\ req[r].log[Len(req[r].log)] = [op |-> "tts", i |-> 1, result |-> "fail", exit |-> -1]
    /\ ~HasAudio(req[r].res.messages.items[2])

\* C20: a request sends at most one response, on every path. The response
\* is sent by the step that ends the handler: a request has a response
\* exactly when it is done, it has sent it once, and after that the handler
\* takes no step but its return, so that neither a second response nor a
\* step of the pipeline follows.
C20_AtMostOneResponse ==
  /\ [](\A r \in Handlers :
          /\ req[r].sent <= 1
          /\ req[r].sent = 1 <=> Done(r)
          /\ req[r].res # NoResponse <=> Done(r)
          /\ Done(r) => req[r].res.body \in {"messages", "error"}
          /\ req[r].res.body = "messages" <=> req[r].res.status = 200
          /\ req[r].res.body = "error" <=> req[r].res.status = 500)
  /\ [][\A r \in Handlers :
          /\ Done(r) => (req'[r] = req[r] \/ req'[r] = Idle)
          /\ req'[r].sent > req[r].sent =>
               /\ req'[r].sent = 1 /\ Done(r)'
               /\ Len(req'[r].log) = Len(req[r].log)]_vars

\* a request of the NORMAL branch that has thrown after the parse and has
\* sent the error response alone
C20_Witness ==
  \E r \in Handlers :
    /\ Done(r) /\ req[r].sent = 1 /\ req[r].res = Failure
    /\ req[r].branch = "NORMAL" /\ req[r].llm = "ok" /\ Parsed(r).ok

====
